---- MODULE Spec2Model ----
(***************************************************************************)
(* ipmipower: a Wake-on-LAN listener and a small web surface that power on *)
(* a server through its management controller (src/main.go).               *)
(*                                                                         *)
(* Several specifications live here.                                       *)
(*   Spec          the running program: the UDP receive loop, two HTTP     *)
(*                 workers and the controller they talk to.                *)
(*   SpecWOL       isValidWOLPacket applied to a family of byte sequences. *)
(*   SpecMAC       parseMAC applied to a family of texts, and the startup  *)
(*                 step of main that depends on it.                        *)
(*   SpecCfg       the configuration main resolves from flags and          *)
(*                 environment, and the one the web handlers resolve.      *)
(*   SpecDeadline  the UDP loop and one HTTP worker with the 10 s context  *)
(*                 deadline of each controller call running out.           *)
(***************************************************************************)
EXTENDS Integers, Sequences, FiniteSets, TLC

VARIABLES
    pc,         \* per process: where it stands in its handler
    call,       \* per process: the locals of its running controller call
    sess,       \* per process: TRUE from a successful client.Connect until
                \* the process has called client.Close
    resp,       \* per HTTP worker: the response written for the last request
    power,      \* the chassis power state held by the controller
    offSeen,    \* processes whose running sendIPMIPowerOn read OFF, with no
                \* switch-off of the chassis since
    buffer,     \* main's receive buffer, up to the last byte ever written
                \* (make([]byte, 1024) is all zero beyond it)
    n,          \* main's n, the length returned by the last ReadFromUDP
    targetMAC,  \* main's targetMAC
    expired,    \* per process: "no", or where its running call stood when the
                \* deadline of its context passed
    macText,    \* SpecMAC: the text handed to parseMAC (one character per item)
    macOut,     \* SpecMAC: what parseMAC returned and what main did with it
    cfgFlags,   \* SpecCfg: the command-line flags given (absent: not given)
    cfgEnv,     \* SpecCfg: the environment ("" stands for unset or empty)
    cfgMain,    \* SpecCfg: finalHost, finalUsername, ... of main
    cfgWeb,     \* SpecCfg: host, username, password, port of the web handlers
    wolSrc,     \* SpecWOL: address the packet under test was built for
    wolData,    \* SpecWOL: the byte sequence handed to isValidWOLPacket
    wolMAC,     \* SpecWOL: the target address handed to isValidWOLPacket
    wolResult   \* SpecWOL: <<>>, or <<b>> once isValidWOLPacket returned b

sysVars == <<pc, call, sess, resp, power, offSeen, buffer, n, targetMAC, expired>>
wolVars == <<wolSrc, wolData, wolMAC, wolResult>>
macVars == <<macText, macOut>>
cfgVars == <<cfgFlags, cfgEnv, cfgMain, cfgWeb>>
\* everything the running program of Spec leaves alone
pureVars == <<wolVars, macVars, cfgVars>>
vars == <<pc, call, sess, resp, power, offSeen, buffer, n, targetMAC, expired,
          macText, macOut, cfgFlags, cfgEnv, cfgMain, cfgWeb,
          wolSrc, wolData, wolMAC, wolResult>>

(***************************************************************************)
(* Program constants                                                       *)
(***************************************************************************)
WOLLen == 102
SyncLen == 6
Reps == 16
MACLen == 6
BufSize == 1024
SyncByte == 255

(***************************************************************************)
(* Bounds of the model                                                     *)
(***************************************************************************)
\* longest run of bytes that follows the 102 bytes of a packet
MaxTrail == 1
\* characters of a MAC text replaced before it is parsed
MaxEdits == 1

Min(a, b) == IF a < b THEN a ELSE b

(***************************************************************************)
(* isValidWOLPacket (Go slices are 0-based, TLA+ sequences 1-based)        *)
(***************************************************************************)
\* for i := 0; i < 6; i++ { if data[i] != 0xFF { return false } }
SyncOK(data) ==
    \A i \in 0..(SyncLen - 1) : data[i + 1] = SyncByte

RepsOK_Short(data, mac) ==
    \A i \in 0..(Reps - 2) : \A j \in 0..(MACLen - 1) :
        data[6 + i * 6 + j + 1] = mac[j + 1]

RepsOK_SkipLastOctet(data, mac) ==
    \A i \in 0..(Reps - 1) : \A j \in 0..(MACLen - 2) :
        data[6 + i * 6 + j + 1] = mac[j + 1]

\* for i := 0; i < 16; i++ { for j := 0; j < 6; j++ {
\*     if data[6+i*6+j] != targetMAC[j] { return false } } }
RepsOK(data, mac) ==
    \A i \in 0..(Reps - 1) : \A j \in 0..(MACLen - 1) :
        data[6 + i * 6 + j + 1] = mac[j + 1]

isValidWOLPacket_AtLeast(data, mac) ==
    IF Len(data) < WOLLen THEN FALSE
    ELSE SyncOK(data) /\ RepsOK(data, mac)

isValidWOLPacket(data, mac) ==
    IF Len(data) # WOLLen THEN FALSE
    ELSE SyncOK(data) /\ RepsOK(data, mac)

(***************************************************************************)
(* parseMAC: strings.ReplaceAll(macStr, "-", ":") and then net.ParseMAC.   *)
(* A text is a sequence of one-character strings.                          *)
(***************************************************************************)
LowerHex == <<"0", "1", "2", "3", "4", "5", "6", "7", "8", "9",
              "a", "b", "c", "d", "e", "f">>
UpperHex == <<"0", "1", "2", "3", "4", "5", "6", "7", "8", "9",
              "A", "B", "C", "D", "E", "F">>

\* the characters xtoi of package net takes for hexadecimal digits
IsHex(c) == \E i \in 1..16 : LowerHex[i] = c \/ UpperHex[i] = c
HexDigit(c) == (CHOOSE i \in 1..16 : LowerHex[i] = c \/ UpperHex[i] = c) - 1

\* xtoi2 of package net: the two hexadecimal digits at the head of s, which
\* must be followed by e when s is longer than two characters
xtoi2(s, e) ==
    IF Len(s) > 2 /\ s[3] # e
    THEN [n |-> 0, ok |-> FALSE]
    ELSE IF IsHex(s[1]) /\ IsHex(s[2])
         THEN [n |-> 16 * HexDigit(s[1]) + HexDigit(s[2]), ok |-> TRUE]
         ELSE [n |-> 0, ok |-> FALSE]

\* net.ParseMAC: 6, 8 or 20 octets, written as two-digit groups joined by the
\* separator found after the first group (':' or '-'), or as four-digit groups
\* joined by '.'
ParseMAC(s) ==
    LET bad == [ok |-> FALSE, addr |-> <<>>]
        k == Len(s)
    IN  IF k < 14 THEN bad
        ELSE IF s[3] \in {":", "-"}
        THEN LET cnt == (k + 1) \div 3
                 grp(i) == xtoi2(SubSeq(s, 3 * (i - 1) + 1, k), s[3])
             IN  IF (k + 1) % 3 # 0 \/ cnt \notin {6, 8, 20} THEN bad
                 ELSE IF \A i \in 1..cnt : grp(i).ok
                      THEN [ok |-> TRUE, addr |-> [i \in 1..cnt |-> grp(i).n]]
                      ELSE bad
        ELSE IF s[5] = "."
        THEN LET cnt == (2 * (k + 1)) \div 5
                 hi(j) == xtoi2(SubSeq(s, 5 * (j - 1) + 1, 5 * (j - 1) + 2), "")
                 lo(j) == xtoi2(SubSeq(s, 5 * (j - 1) + 3, k), s[5])
             IN  IF (k + 1) % 5 # 0 \/ cnt \notin {6, 8, 20} THEN bad
                 ELSE IF \A j \in 1..(cnt \div 2) : hi(j).ok /\ lo(j).ok
                      THEN [ok |-> TRUE,
                            addr |-> [i \in 1..cnt |->
                                        IF i % 2 = 1 THEN hi((i + 1) \div 2).n
                                        ELSE lo(i \div 2).n]]
                      ELSE bad
        ELSE bad

ReplaceAll_FirstOnly(s, old, new) ==
    [i \in 1..Len(s) |->
        IF s[i] = old /\ (\A j \in 1..(i - 1) : s[j] # old) THEN new ELSE s[i]]

\* strings.ReplaceAll for a one-character old and new
ReplaceAll(s, old, new) == [i \in 1..Len(s) |-> IF s[i] = old THEN new ELSE s[i]]

\* parseMAC: the error of net.ParseMAC is passed on, its address returned as is
parseMAC(macStr) == ParseMAC(ReplaceAll(macStr, "-", ":"))

(***************************************************************************)
(* Inputs: addresses and datagrams                                         *)
(***************************************************************************)
DefaultMAC == <<0, 17, 34, 51, 68, 85>>
MACs == { DefaultMAC,
          <<0, 17, 34, 51, 68, 84>>,
          <<1, 17, 34, 51, 68, 85>>,
          <<255, 255, 255, 255, 255, 255>> }
ByteSamples == {0, 85, 255}

\* 6 bytes 0xFF followed by 16 repetitions of m
MagicPacket(m) ==
    [i \in 1..WOLLen |-> IF i <= SyncLen THEN SyncByte
                         ELSE m[((i - SyncLen - 1) % MACLen) + 1]]

Trails == UNION { [1..k -> {0, 255}] : k \in 1..MaxTrail }

\* number of positions at which two sequences of equal length differ
DiffCount(a, b) == Cardinality({i \in 1..Len(a) : a[i] # b[i]})

(***************************************************************************)
(* Processes and their state at start                                      *)
(***************************************************************************)
\* the UDP receive loop of main and two workers of the HTTP server
Procs == {"udp", "h1", "h2"}
HTTP == {"h1", "h2"}

NoCall == [fn |-> "none", connects |-> 0, opened |-> 0, queries |-> 0,
           cmds |-> 0, observed |-> "none", cmdres |-> "none",
           ret |-> "none", val |-> FALSE]
NoResp == [code |-> 0, status |-> "none"]

\* the program before any datagram or request has arrived
SysStart(p0, m) ==
    /\ pc = [p \in Procs |-> IF p = "udp" THEN "read" ELSE "idle"]
    /\ call = [p \in Procs |-> NoCall]
    /\ sess = [p \in Procs |-> FALSE]
    /\ resp = [p \in HTTP |-> NoResp]
    /\ power = p0
    /\ offSeen = {}
    /\ buffer = <<>>
    /\ n = 0
    /\ targetMAC = m
    /\ expired = [p \in Procs |-> "no"]

\* the variables of SpecWOL, SpecMAC and SpecCfg while another one runs
WolIdle ==
    /\ wolSrc = DefaultMAC
    /\ wolMAC = DefaultMAC
    /\ wolData = <<>>
    /\ wolResult = <<>>
MacIdle ==
    /\ macText = <<>>
    /\ macOut = [at |-> "idle", edits |-> 0, ok |-> FALSE, addr |-> <<>>]
CfgIdle ==
    /\ cfgFlags = <<>>
    /\ cfgEnv = <<>>
    /\ cfgMain = <<>>
    /\ cfgWeb = <<>>

(***************************************************************************)
(* SpecWOL: isValidWOLPacket on a valid packet, on a valid packet with one *)
(* byte changed, on a truncated packet and on a packet with trailing bytes *)
(***************************************************************************)
InitWOL ==
    /\ SysStart("OFF", DefaultMAC)
    /\ wolSrc \in MACs
    /\ wolMAC \in MACs
    /\ wolData = MagicPacket(wolSrc)
    /\ wolResult = <<>>
    /\ MacIdle
    /\ CfgIdle

Pristine == wolResult = <<>> /\ wolData = MagicPacket(wolSrc)

\* change exactly one byte of the valid packet
WolMutate ==
    /\ Pristine
    /\ \E p \in 1..WOLLen, b \in ByteSamples :
        /\ b # wolData[p]
        /\ wolData' = [wolData EXCEPT ![p] = b]
    /\ UNCHANGED <<wolSrc, wolMAC, wolResult>>
    /\ UNCHANGED <<sysVars, macVars, cfgVars>>

\* keep only the first k bytes of the valid packet
WolTruncate ==
    /\ Pristine
    /\ \E k \in 0..(WOLLen - 1) : wolData' = SubSeq(wolData, 1, k)
    /\ UNCHANGED <<wolSrc, wolMAC, wolResult>>
    /\ UNCHANGED <<sysVars, macVars, cfgVars>>

\* append trailing bytes to the packet (valid, or with one byte changed)
WolExtend ==
    /\ wolResult = <<>>
    /\ Len(wolData) = WOLLen
    /\ \E t \in Trails : wolData' = wolData \o t
    /\ UNCHANGED <<wolSrc, wolMAC, wolResult>>
    /\ UNCHANGED <<sysVars, macVars, cfgVars>>

\* the call isValidWOLPacket(data, targetMAC)
WolValidate ==
    /\ wolResult = <<>>
    /\ wolResult' = <<isValidWOLPacket(wolData, wolMAC)>>
    /\ UNCHANGED <<wolSrc, wolData, wolMAC>>
    /\ UNCHANGED <<sysVars, macVars, cfgVars>>

NextWOL ==
    \/ WolMutate
    \/ WolTruncate
    \/ WolExtend
    \/ WolValidate

SpecWOL == InitWOL /\ [][NextWOL]_vars

(***************************************************************************)
(* SpecMAC: main parses the configured MAC text and starts its listeners.  *)
(* The texts are addresses of 3 to 20 octets written with ':', '-' or '.', *)
(* in lower or upper case, and the same with one character replaced.       *)
(***************************************************************************)
\* the text of the octets m: two digits of hex per octet, joined by sep
Text(m, sep, hex) ==
    [i \in 1..(3 * Len(m) - 1) |->
        IF i % 3 = 0 THEN sep
        ELSE IF i % 3 = 1 THEN hex[(m[(i + 2) \div 3] \div 16) + 1]
        ELSE hex[(m[(i + 2) \div 3] % 16) + 1]]

\* the text of an even number of octets in groups of four digits joined by '.'
DotText(m) ==
    [i \in 1..(5 * (Len(m) \div 2) - 1) |->
        IF i % 5 = 0 THEN "."
        ELSE LET o == m[2 * ((i - 1) \div 5) + (IF i % 5 <= 2 THEN 1 ELSE 2)]
             IN  IF i % 5 \in {1, 3} THEN LowerHex[(o \div 16) + 1]
                 ELSE LowerHex[(o % 16) + 1]]

Octets(k) == [i \in 1..k |-> (17 * (i - 1)) % 256]
OctetCounts == {3, 5, 6, 7, 8, 20}
UpperMAC == <<170, 187, 204, 221, 238, 255>>
ShortMAC == <<0, 17, 34>>

MacTexts ==
    {Text(m, sep, LowerHex) :
        m \in MACs \cup {Octets(k) : k \in OctetCounts}, sep \in {":", "-"}}
    \cup {Text(UpperMAC, ":", UpperHex), Text(UpperMAC, "-", LowerHex)}
    \cup {DotText(Octets(k)) : k \in {4, 6, 8}}
    \cup {<<>>}

EditChars == {":", "-", "g", "0"}

InitMAC ==
    /\ SysStart("OFF", DefaultMAC)
    /\ WolIdle
    /\ CfgIdle
    /\ macText \in MacTexts
    /\ macOut = [at |-> "start", edits |-> 0, ok |-> FALSE, addr |-> <<>>]

MacEdit ==
    /\ macOut.at = "start"
    /\ macOut.edits < MaxEdits
    /\ \E i \in 1..Len(macText), c \in EditChars :
        macText' = [macText EXCEPT ![i] = c]
    /\ macOut' = [macOut EXCEPT !.edits = @ + 1]
    /\ UNCHANGED <<sysVars, wolVars, cfgVars>>

\* targetMAC, err := parseMAC(finalMAC); if err != nil { log.Fatalf(...) }
MainParseMAC ==
    /\ macOut.at = "start"
    /\ LET r == parseMAC(macText)
       IN  macOut' = [macOut EXCEPT !.at = IF r.ok THEN "parsed" ELSE "fatal",
                                    !.ok = r.ok,
                                    !.addr = r.addr]
    /\ UNCHANGED macText
    /\ UNCHANGED <<sysVars, wolVars, cfgVars>>

\* the rest of main in "wol" mode: the web server goroutine and net.ListenUDP
MainListen ==
    /\ macOut.at = "parsed"
    /\ macOut' = [macOut EXCEPT !.at = "listening"]
    /\ UNCHANGED macText
    /\ UNCHANGED <<sysVars, wolVars, cfgVars>>

NextMAC ==
    \/ MacEdit
    \/ MainParseMAC
    \/ MainListen

SpecMAC == InitMAC /\ [][NextMAC]_vars

(***************************************************************************)
(* SpecCfg: the configuration main resolves once at startup, and the one   *)
(* webHandler and powerOnHandler resolve on every request.                 *)
(***************************************************************************)
FlagNames == {"host", "username", "password", "port", "wolPort", "mac", "webPort"}

\* the defaults of the flag definitions in main
FlagDefaults ==
    [host |-> "", username |-> "", password |-> "", port |-> 623, wolPort |-> 9,
     mac |-> "00:11:22:33:44:55", webPort |-> 80]

\* the value each flag carries when the command line gives it
FlagGiven ==
    [host |-> "10.0.0.5", username |-> "root", password |-> "secret", port |-> 6230,
     wolPort |-> 7, mac |-> "aa:bb:cc:dd:ee:ff", webPort |-> 8080]

EnvNames == {"IPMI_HOST", "IPMI_USERNAME", "IPMI_PASSWORD", "WOL_MAC"}

\* the value each environment variable carries when it is set
EnvSet ==
    [IPMI_HOST |-> "10.0.0.9", IPMI_USERNAME |-> "operator",
     IPMI_PASSWORD |-> "hunter2", WOL_MAC |-> "00-11-22-33-44-66"]

NoMainCfg ==
    [done |-> FALSE, host |-> "", username |-> "", password |-> "", port |-> 0,
     wolPort |-> 0, mac |-> "", webPort |-> 0]
NoWebCfg == [by |-> "none", host |-> "", username |-> "", password |-> "", port |-> 0]

\* cfgFlags.val is what flag.Parse() leaves behind *host, *username, ...;
\* cfgEnv is what os.Getenv returns ("" for a variable that is not set)
InitCfg ==
    /\ SysStart("OFF", DefaultMAC)
    /\ WolIdle
    /\ MacIdle
    /\ \E G \in SUBSET FlagNames :
        cfgFlags = [given |-> G,
                    val |-> [name \in FlagNames |->
                                IF name \in G THEN FlagGiven[name]
                                ELSE FlagDefaults[name]]]
    /\ \E E \in SUBSET EnvNames :
        cfgEnv = [k \in EnvNames |-> IF k \in E THEN EnvSet[k] ELSE ""]
    /\ cfgMain = NoMainCfg
    /\ cfgWeb = NoWebCfg

\* if value := os.Getenv(key); value != "" { return value }; return defaultValue
getEnvOrDefault(key, defaultValue) ==
    IF cfgEnv[key] # "" THEN cfgEnv[key] ELSE defaultValue

\* main after flag.Parse(): finalHost, finalUsername, finalPassword, finalMAC; the
\* three ports are used as the flags hold them
MainConfig ==
    /\ ~cfgMain.done
    /\ cfgMain' =
        [done |-> TRUE,
         host |-> IF cfgFlags.val.host = ""
                  THEN getEnvOrDefault("IPMI_HOST", "192.168.0.1")
                  ELSE cfgFlags.val.host,
         username |-> IF cfgFlags.val.username = ""
                      THEN getEnvOrDefault("IPMI_USERNAME", "admin")
                      ELSE cfgFlags.val.username,
         password |-> IF cfgFlags.val.password = ""
                      THEN getEnvOrDefault("IPMI_PASSWORD", "admin")
                      ELSE cfgFlags.val.password,
         mac |-> IF getEnvOrDefault("WOL_MAC", "") # ""
                 THEN getEnvOrDefault("WOL_MAC", "")
                 ELSE cfgFlags.val.mac,
         port |-> cfgFlags.val.port,
         wolPort |-> cfgFlags.val.wolPort,
         webPort |-> cfgFlags.val.webPort]
    /\ UNCHANGED <<cfgFlags, cfgEnv, cfgWeb>>
    /\ UNCHANGED <<sysVars, wolVars, macVars>>

\* the configuration a handler reads before it calls the controller
HandlerConfig(who) ==
    [by |-> who,
     host |-> getEnvOrDefault("IPMI_HOST", "192.168.0.1"),
     username |-> getEnvOrDefault("IPMI_USERNAME", "admin"),
     password |-> getEnvOrDefault("IPMI_PASSWORD", "admin"),
     port |-> 623]

\* webHandler: "Get configuration from environment variables"
WebHandlerConfig ==
    /\ cfgMain.done
    /\ cfgWeb' = HandlerConfig("webHandler")
    /\ UNCHANGED <<cfgFlags, cfgEnv, cfgMain>>
    /\ UNCHANGED <<sysVars, wolVars, macVars>>

\* powerOnHandler: "Get configuration from environment variables"
PowerOnHandlerConfig ==
    /\ cfgMain.done
    /\ cfgWeb' = HandlerConfig("powerOnHandler")
    /\ UNCHANGED <<cfgFlags, cfgEnv, cfgMain>>
    /\ UNCHANGED <<sysVars, wolVars, macVars>>

NextCfg ==
    \/ MainConfig
    \/ WebHandlerConfig
    \/ PowerOnHandlerConfig

SpecCfg == InitCfg /\ [][NextCfg]_vars

(***************************************************************************)
(* Spec: the running program                                               *)
(***************************************************************************)
\* the -mac flag's default, "00:11:22:33:44:55"
Targets == { DefaultMAC }
OtherMAC(m) == IF m = DefaultMAC THEN <<0, 17, 34, 51, 68, 84>> ELSE DefaultMAC
ShortLens == {0, 101}
Suffix == <<170, 187>>

\* the datagrams the network delivers to the listener whose target is m:
\* a valid packet, one with trailing bytes, one for another address, short ones
Datagrams(m) ==
    {MagicPacket(m), MagicPacket(m) \o Suffix, MagicPacket(OtherMAC(m))}
    \cup {SubSeq(MagicPacket(m), 1, k) : k \in ShortLens}

\* the same, tabulated once per target
DatagramsOf == [m \in Targets |-> Datagrams(m)]

\* b[:k] of the Go program, for a buffer b held up to its last written byte
Slice(b, k) == [i \in 1..k |-> IF i <= Len(b) THEN b[i] ELSE 0]

Init ==
    /\ \E p0 \in {"ON", "OFF"}, m \in Targets : SysStart(p0, m)
    /\ WolIdle
    /\ MacIdle
    /\ CfgIdle

\* the return statements of sendIPMIPowerOn and getPowerStatus that carry an error
IsErr(r) == r \in {"ErrNewClient", "ErrConnect", "ErrStatus", "ErrPowerUp"}

\* the outcome a return statement of sendIPMIPowerOn stands for
Outcome(r) ==
    CASE r = "AlreadyOn" -> "NoActionAlreadyOn"
      [] r = "PowerOnSent" -> "PowerOnIssued"
      [] r = "ErrPowerUp" -> "CommandFailed"
      [] r \in {"ErrNewClient", "ErrConnect", "ErrStatus"} -> "QueryFailed"
      [] OTHER -> "none"

In(p, f, at) == pc[p] = at /\ call[p].fn = f

CtxResults_PerStep(p) == BOOLEAN

\* what an operation that takes ctx can return: once the deadline of
\* context.WithTimeout(context.Background(), 10*time.Second) has passed, an error
CtxResults(p) == IF expired[p] = "no" THEN BOOLEAN ELSE {FALSE}

\* a process enters sendIPMIPowerOn or getPowerStatus and runs it up to its
\* first exchange with the controller:
\*   client, err := ipmi.NewClient(host, port, username, password)
\*   if err != nil { return ... }
Enter(p, f) ==
    /\ \E ok \in BOOLEAN :
        IF ok
        THEN /\ call' = [call EXCEPT ![p] = [NoCall EXCEPT !.fn = f]]
             /\ pc' = [pc EXCEPT ![p] = "connect"]
        ELSE /\ call' = [call EXCEPT ![p] =
                             [NoCall EXCEPT !.fn = f, !.ret = "ErrNewClient"]]
             /\ pc' = [pc EXCEPT ![p] = "returned"]
    /\ offSeen' = offSeen \ {p}
    /\ expired' = [expired EXCEPT ![p] = "no"]

\* a process is back in its caller: the callee's locals are gone
Leave(p, at) ==
    /\ call' = [call EXCEPT ![p] = NoCall]
    /\ pc' = [pc EXCEPT ![p] = at]
    /\ offSeen' = offSeen \ {p}
    /\ expired' = [expired EXCEPT ![p] = "no"]

(***************************************************************************)
(* sendIPMIPowerOn                                                         *)
(***************************************************************************)

SPO_Connect_Proceed(p) ==
    /\ In(p, "sendIPMIPowerOn", "connect")
    /\ \E ok \in CtxResults(p) :
        IF ok
        THEN /\ sess' = [sess EXCEPT ![p] = TRUE]
             /\ call' = [call EXCEPT ![p].connects = @ + 1, ![p].opened = @ + 1]
             /\ pc' = [pc EXCEPT ![p] = "status"]
        ELSE /\ call' = [call EXCEPT ![p].connects = @ + 1]
             /\ pc' = [pc EXCEPT ![p] = "status"]
             /\ UNCHANGED sess
    /\ UNCHANGED <<resp, power, offSeen, buffer, n, targetMAC, expired>>
    /\ UNCHANGED pureVars

\* if err := client.Connect(ctx); err != nil { return ... }; defer client.Close(ctx)
SPO_Connect(p) ==
    /\ In(p, "sendIPMIPowerOn", "connect")
    /\ \E ok \in CtxResults(p) :
        IF ok
        THEN /\ sess' = [sess EXCEPT ![p] = TRUE]
             /\ call' = [call EXCEPT ![p].connects = @ + 1, ![p].opened = @ + 1]
             /\ pc' = [pc EXCEPT ![p] = "status"]
        ELSE /\ call' = [call EXCEPT ![p].connects = @ + 1,
                                     ![p].ret = "ErrConnect"]
             /\ pc' = [pc EXCEPT ![p] = "returned"]
             /\ UNCHANGED sess
    /\ UNCHANGED <<resp, power, offSeen, buffer, n, targetMAC, expired>>
    /\ UNCHANGED pureVars

SPO_GetChassisStatus_NoCheck(p) ==
    /\ In(p, "sendIPMIPowerOn", "status")
    /\ \E ok \in CtxResults(p) :
        IF ok
        THEN /\ call' = [call EXCEPT ![p].queries = @ + 1, ![p].observed = power]
             /\ pc' = [pc EXCEPT ![p] = "powerup"]
             /\ offSeen' = IF power = "OFF" THEN offSeen \cup {p} ELSE offSeen
        ELSE /\ call' = [call EXCEPT ![p].queries = @ + 1,
                                     ![p].observed = "err",
                                     ![p].ret = "ErrStatus"]
             /\ pc' = [pc EXCEPT ![p] = "close"]
             /\ UNCHANGED offSeen
    /\ UNCHANGED <<sess, resp, power, buffer, n, targetMAC, expired>>
    /\ UNCHANGED pureVars

SPO_GetChassisStatus_IgnoreErr(p) ==
    /\ In(p, "sendIPMIPowerOn", "status")
    /\ \E ok \in CtxResults(p) :
        IF ok
        THEN /\ call' = [call EXCEPT ![p].queries = @ + 1,
                                     ![p].observed = power,
                                     ![p].ret = IF power = "ON" THEN "AlreadyOn" ELSE @]
             /\ pc' = [pc EXCEPT ![p] = IF power = "ON" THEN "close" ELSE "powerup"]
             /\ offSeen' = IF power = "OFF" THEN offSeen \cup {p} ELSE offSeen
        ELSE /\ call' = [call EXCEPT ![p].queries = @ + 1, ![p].observed = "err"]
             /\ pc' = [pc EXCEPT ![p] = "powerup"]
             /\ UNCHANGED offSeen
    /\ UNCHANGED <<sess, resp, power, buffer, n, targetMAC, expired>>
    /\ UNCHANGED pureVars

SPO_GetChassisStatus_Cached(p) ==
    /\ In(p, "sendIPMIPowerOn", "status")
    /\ \E ok \in CtxResults(p) :
        LET seen == IF \E q \in HTTP : resp[q].status \in {"ON", "OFF"}
                    THEN (CHOOSE q \in HTTP : resp[q].status \in {"ON", "OFF"})
                    ELSE "none"
            state == IF seen = "none" THEN power ELSE resp[seen].status
        IN  IF ok
            THEN /\ call' = [call EXCEPT ![p].queries = @ + 1,
                                         ![p].observed = state,
                                         ![p].ret = IF state = "ON" THEN "AlreadyOn" ELSE @]
                 /\ pc' = [pc EXCEPT ![p] = IF state = "ON" THEN "close" ELSE "powerup"]
                 /\ offSeen' = IF power = "OFF" THEN offSeen \cup {p} ELSE offSeen
            ELSE /\ call' = [call EXCEPT ![p].queries = @ + 1,
                                         ![p].observed = "err",
                                         ![p].ret = "ErrStatus"]
                 /\ pc' = [pc EXCEPT ![p] = "close"]
                 /\ UNCHANGED offSeen
    /\ UNCHANGED <<sess, resp, power, buffer, n, targetMAC, expired>>
    /\ UNCHANGED pureVars

\* status, err := client.GetChassisStatus(ctx); if err != nil { return ... }
\* if status.PowerIsOn { return nil }
SPO_GetChassisStatus(p) ==
    /\ In(p, "sendIPMIPowerOn", "status")
    /\ \E ok \in CtxResults(p) :
        IF ok
        THEN /\ call' = [call EXCEPT ![p].queries = @ + 1,
                                     ![p].observed = power,
                                     ![p].ret = IF power = "ON" THEN "AlreadyOn" ELSE @]
             /\ pc' = [pc EXCEPT ![p] = IF power = "ON" THEN "close" ELSE "powerup"]
             /\ offSeen' = IF power = "OFF" THEN offSeen \cup {p} ELSE offSeen
        ELSE /\ call' = [call EXCEPT ![p].queries = @ + 1,
                                     ![p].observed = "err",
                                     ![p].ret = "ErrStatus"]
             /\ pc' = [pc EXCEPT ![p] = "close"]
             /\ UNCHANGED offSeen
    /\ UNCHANGED <<sess, resp, power, buffer, n, targetMAC, expired>>
    /\ UNCHANGED pureVars

SPO_ChassisControl_SwallowErr(p) ==
    /\ In(p, "sendIPMIPowerOn", "powerup")
    /\ \E ok \in CtxResults(p) :
        IF ok
        THEN /\ call' = [call EXCEPT ![p].cmds = @ + 1,
                                     ![p].cmdres = "accepted",
                                     ![p].ret = "PowerOnSent"]
             /\ power' = "ON"
        ELSE /\ call' = [call EXCEPT ![p].cmds = @ + 1,
                                     ![p].cmdres = "rejected",
                                     ![p].ret = "PowerOnSent"]
             /\ UNCHANGED power
    /\ pc' = [pc EXCEPT ![p] = "close"]
    /\ UNCHANGED <<sess, resp, offSeen, buffer, n, targetMAC, expired>>
    /\ UNCHANGED pureVars

SPO_ChassisControl_AlwaysErr(p) ==
    /\ In(p, "sendIPMIPowerOn", "powerup")
    /\ \E ok \in CtxResults(p) :
        IF ok
        THEN /\ call' = [call EXCEPT ![p].cmds = @ + 1,
                                     ![p].cmdres = "accepted",
                                     ![p].ret = "ErrPowerUp"]
             /\ power' = "ON"
        ELSE /\ call' = [call EXCEPT ![p].cmds = @ + 1,
                                     ![p].cmdres = "rejected",
                                     ![p].ret = "ErrPowerUp"]
             /\ UNCHANGED power
    /\ pc' = [pc EXCEPT ![p] = "close"]
    /\ UNCHANGED <<sess, resp, offSeen, buffer, n, targetMAC, expired>>
    /\ UNCHANGED pureVars

SPO_ChassisControl_RetryOnErr(p) ==
    /\ In(p, "sendIPMIPowerOn", "powerup")
    /\ \E ok \in CtxResults(p) :
        IF ok
        THEN /\ call' = [call EXCEPT ![p].cmds = @ + 1,
                                     ![p].cmdres = "accepted",
                                     ![p].ret = "PowerOnSent"]
             /\ power' = "ON"
             /\ pc' = [pc EXCEPT ![p] = "close"]
        ELSE /\ call' = [call EXCEPT ![p] = [NoCall EXCEPT !.fn = "sendIPMIPowerOn",
                                                          !.connects = 1,
                                                          !.opened = 1]]
             /\ pc' = [pc EXCEPT ![p] = "status"]
             /\ UNCHANGED power
    /\ UNCHANGED <<sess, resp, offSeen, buffer, n, targetMAC, expired>>
    /\ UNCHANGED pureVars

\* if _, err := client.ChassisControl(ctx, ipmi.ChassisControlPowerUp); err != nil
\*     { return ... }; return nil
SPO_ChassisControl(p) ==
    /\ In(p, "sendIPMIPowerOn", "powerup")
    /\ \E ok \in CtxResults(p) :
        IF ok
        THEN /\ call' = [call EXCEPT ![p].cmds = @ + 1,
                                     ![p].cmdres = "accepted",
                                     ![p].ret = "PowerOnSent"]
             /\ power' = "ON"
        ELSE /\ call' = [call EXCEPT ![p].cmds = @ + 1,
                                     ![p].cmdres = "rejected",
                                     ![p].ret = "ErrPowerUp"]
             /\ UNCHANGED power
    /\ pc' = [pc EXCEPT ![p] = "close"]
    /\ UNCHANGED <<sess, resp, offSeen, buffer, n, targetMAC, expired>>
    /\ UNCHANGED pureVars

SPO_Close_OnSuccessOnly(p) ==
    /\ In(p, "sendIPMIPowerOn", "close")
    /\ sess' = [sess EXCEPT ![p] = IF IsErr(call[p].ret) THEN @ ELSE FALSE]
    /\ pc' = [pc EXCEPT ![p] = "returned"]
    /\ UNCHANGED <<call, resp, power, offSeen, buffer, n, targetMAC, expired>>
    /\ UNCHANGED pureVars

\* the deferred client.Close(ctx), run on every return after Connect succeeded
SPO_Close(p) ==
    /\ In(p, "sendIPMIPowerOn", "close")
    /\ sess' = [sess EXCEPT ![p] = FALSE]
    /\ pc' = [pc EXCEPT ![p] = "returned"]
    /\ UNCHANGED <<call, resp, power, offSeen, buffer, n, targetMAC, expired>>
    /\ UNCHANGED pureVars

(***************************************************************************)
(* getPowerStatus                                                          *)
(***************************************************************************)
\* if err := client.Connect(ctx); err != nil { return ... }; defer client.Close(ctx)
GPS_Connect(p) ==
    /\ In(p, "getPowerStatus", "connect")
    /\ \E ok \in CtxResults(p) :
        IF ok
        THEN /\ sess' = [sess EXCEPT ![p] = TRUE]
             /\ call' = [call EXCEPT ![p].connects = @ + 1, ![p].opened = @ + 1]
             /\ pc' = [pc EXCEPT ![p] = "status"]
        ELSE /\ call' = [call EXCEPT ![p].connects = @ + 1,
                                     ![p].ret = "ErrConnect"]
             /\ pc' = [pc EXCEPT ![p] = "returned"]
             /\ UNCHANGED sess
    /\ UNCHANGED <<resp, power, offSeen, buffer, n, targetMAC, expired>>
    /\ UNCHANGED pureVars

GPS_GetChassisStatus_PowerUp(p) ==
    /\ In(p, "getPowerStatus", "status")
    /\ \E ok \in CtxResults(p) :
        IF ok
        THEN /\ call' = [call EXCEPT ![p].queries = @ + 1,
                                     ![p].observed = power,
                                     ![p].val = TRUE,
                                     ![p].ret = "Status"]
             /\ power' = "ON"
        ELSE /\ call' = [call EXCEPT ![p].queries = @ + 1,
                                     ![p].observed = "err",
                                     ![p].ret = "ErrStatus"]
             /\ UNCHANGED power
    /\ pc' = [pc EXCEPT ![p] = "close"]
    /\ UNCHANGED <<sess, resp, offSeen, buffer, n, targetMAC, expired>>
    /\ UNCHANGED pureVars

\* status, err := client.GetChassisStatus(ctx); if err != nil { return false, ... }
\* return status.PowerIsOn, nil
GPS_GetChassisStatus(p) ==
    /\ In(p, "getPowerStatus", "status")
    /\ \E ok \in CtxResults(p) :
        IF ok
        THEN /\ call' = [call EXCEPT ![p].queries = @ + 1,
                                     ![p].observed = power,
                                     ![p].val = (power = "ON"),
                                     ![p].ret = "Status"]
        ELSE /\ call' = [call EXCEPT ![p].queries = @ + 1,
                                     ![p].observed = "err",
                                     ![p].ret = "ErrStatus"]
    /\ pc' = [pc EXCEPT ![p] = "close"]
    /\ UNCHANGED <<sess, resp, power, offSeen, buffer, n, targetMAC, expired>>
    /\ UNCHANGED pureVars

\* the deferred client.Close(ctx)
GPS_Close(p) ==
    /\ In(p, "getPowerStatus", "close")
    /\ sess' = [sess EXCEPT ![p] = FALSE]
    /\ pc' = [pc EXCEPT ![p] = "returned"]
    /\ UNCHANGED <<call, resp, power, offSeen, buffer, n, targetMAC, expired>>
    /\ UNCHANGED pureVars

(***************************************************************************)
(* main: the UDP receive loop                                              *)
(***************************************************************************)
\* what conn.ReadFromUDP(buffer) leaves in buffer when it delivers d: the first
\* min(len(d), len(buffer)) bytes of d overwrite the head, the rest stays
Received(d) ==
    [i \in 1..Min(BufSize, IF Len(d) > Len(buffer) THEN Len(d) ELSE Len(buffer)) |->
        IF i <= Len(d) THEN d[i] ELSE buffer[i]]

UdpReceive_NoLen ==
    /\ pc["udp"] = "read"
    /\ \E d \in DatagramsOf[targetMAC] :
        /\ n' = Min(Len(d), BufSize)
        /\ buffer' = Received(d)
        /\ IF isValidWOLPacket(Slice(buffer', WOLLen), targetMAC)
           THEN Enter("udp", "sendIPMIPowerOn")
           ELSE UNCHANGED <<pc, call, offSeen, expired>>
    /\ UNCHANGED <<sess, resp, power, targetMAC>>
    /\ UNCHANGED pureVars

UdpReceive_Async ==
    /\ \E d \in DatagramsOf[targetMAC] :
        /\ n' = Min(Len(d), BufSize)
        /\ buffer' = Received(d)
        /\ IF n' >= WOLLen /\ isValidWOLPacket(Slice(buffer', WOLLen), targetMAC)
           THEN Enter("udp", "sendIPMIPowerOn")
           ELSE UNCHANGED <<pc, call, offSeen, expired>>
    /\ UNCHANGED <<sess, resp, power, targetMAC>>
    /\ UNCHANGED pureVars

\* one iteration of the receive loop with err == nil:
\*   n, clientAddr, err := conn.ReadFromUDP(buffer)
\*   if n >= 102 && isValidWOLPacket(buffer[:102], targetMAC) { sendIPMIPowerOn(...) }
UdpReceive ==
    /\ pc["udp"] = "read"
    /\ \E d \in DatagramsOf[targetMAC] :
        /\ n' = Min(Len(d), BufSize)
        /\ buffer' = Received(d)
        /\ IF n' >= WOLLen /\ isValidWOLPacket(Slice(buffer', WOLLen), targetMAC)
           THEN Enter("udp", "sendIPMIPowerOn")
           ELSE UNCHANGED <<pc, call, offSeen, expired>>
    /\ UNCHANGED <<sess, resp, power, targetMAC>>
    /\ UNCHANGED pureVars

\* ReadFromUDP fails: log.Printf and continue
UdpReadError ==
    /\ pc["udp"] = "read"
    /\ n' = 0
    /\ UNCHANGED <<pc, call, sess, resp, power, offSeen, buffer, targetMAC, expired>>
    /\ UNCHANGED pureVars

UdpReturn_FatalOnErr ==
    /\ In("udp", "sendIPMIPowerOn", "returned")
    /\ Leave("udp", IF IsErr(call["udp"].ret) THEN "exited" ELSE "read")
    /\ UNCHANGED <<sess, resp, power, buffer, n, targetMAC>>
    /\ UNCHANGED pureVars

\* sendIPMIPowerOn is back: if err != nil { log.Printf(...) }, next iteration
UdpReturn ==
    /\ In("udp", "sendIPMIPowerOn", "returned")
    /\ Leave("udp", "read")
    /\ UNCHANGED <<sess, resp, power, buffer, n, targetMAC>>
    /\ UNCHANGED pureVars

(***************************************************************************)
(* The HTTP handlers, one request per worker at a time                     *)
(***************************************************************************)
getStatusString(isPowered) == IF isPowered THEN "ON" ELSE "OFF"

\* webHandler up to its call of getPowerStatus
WebHandler(p) ==
    /\ pc[p] = "idle"
    /\ Enter(p, "getPowerStatus")
    /\ resp' = [resp EXCEPT ![p] = NoResp]
    /\ UNCHANGED <<sess, power, buffer, n, targetMAC>>
    /\ UNCHANGED pureVars

WebHandlerReturn_NoUnknown(p) ==
    /\ In(p, "getPowerStatus", "returned")
    /\ resp' = [resp EXCEPT ![p] =
                    [code |-> 200, status |-> getStatusString(call[p].val)]]
    /\ Leave(p, "idle")
    /\ UNCHANGED <<sess, power, buffer, n, targetMAC>>
    /\ UNCHANGED pureVars

\* webHandler after getPowerStatus: "Unknown" on error, else getStatusString
WebHandlerReturn(p) ==
    /\ In(p, "getPowerStatus", "returned")
    /\ resp' = [resp EXCEPT ![p] =
                    [code |-> 200,
                     status |-> IF IsErr(call[p].ret) THEN "Unknown"
                                ELSE getStatusString(call[p].val)]]
    /\ Leave(p, "idle")
    /\ UNCHANGED <<sess, power, buffer, n, targetMAC>>
    /\ UNCHANGED pureVars

PowerOnHandler_AnyMethod(p, method) ==
    /\ pc[p] = "idle"
    /\ resp' = [resp EXCEPT ![p] = NoResp]
    /\ Enter(p, "sendIPMIPowerOn")
    /\ UNCHANGED <<sess, power, buffer, n, targetMAC>>
    /\ UNCHANGED pureVars

\* powerOnHandler up to its call of sendIPMIPowerOn
PowerOnHandler(p, method) ==
    /\ pc[p] = "idle"
    /\ IF method # "POST"
       THEN /\ resp' = [resp EXCEPT ![p] = [code |-> 405, status |-> "none"]]
            /\ UNCHANGED <<pc, call, offSeen, expired>>
       ELSE /\ resp' = [resp EXCEPT ![p] = NoResp]
            /\ Enter(p, "sendIPMIPowerOn")
    /\ UNCHANGED <<sess, power, buffer, n, targetMAC>>
    /\ UNCHANGED pureVars

PowerOnHandlerReturn_AlwaysRedirect(p) ==
    /\ p \in HTTP
    /\ In(p, "sendIPMIPowerOn", "returned")
    /\ resp' = [resp EXCEPT ![p] = [code |-> 303, status |-> "none"]]
    /\ Leave(p, "idle")
    /\ UNCHANGED <<sess, power, buffer, n, targetMAC>>
    /\ UNCHANGED pureVars

\* powerOnHandler after sendIPMIPowerOn: 500 on error, else a redirect to "/"
PowerOnHandlerReturn(p) ==
    /\ p \in HTTP
    /\ In(p, "sendIPMIPowerOn", "returned")
    /\ resp' = [resp EXCEPT ![p] =
                    [code |-> IF IsErr(call[p].ret) THEN 500 ELSE 303,
                     status |-> "none"]]
    /\ Leave(p, "idle")
    /\ UNCHANGED <<sess, power, buffer, n, targetMAC>>
    /\ UNCHANGED pureVars

(***************************************************************************)
(* The world outside: the chassis is switched off or on by other means     *)
(***************************************************************************)
EnvPowerOff ==
    /\ power = "ON"
    /\ power' = "OFF"
    /\ offSeen' = {}
    /\ UNCHANGED <<pc, call, sess, resp, buffer, n, targetMAC, expired>>
    /\ UNCHANGED pureVars

EnvPowerOn ==
    /\ power = "OFF"
    /\ power' = "ON"
    /\ UNCHANGED <<pc, call, sess, resp, offSeen, buffer, n, targetMAC, expired>>
    /\ UNCHANGED pureVars

Next ==
    \/ \E p \in Procs : SPO_Connect(p)
    \/ \E p \in Procs : SPO_GetChassisStatus(p)
    \/ \E p \in Procs : SPO_ChassisControl(p)
    \/ \E p \in Procs : SPO_Close(p)
    \/ \E p \in HTTP : GPS_Connect(p)
    \/ \E p \in HTTP : GPS_GetChassisStatus(p)
    \/ \E p \in HTTP : GPS_Close(p)
    \/ UdpReceive
    \/ UdpReadError
    \/ UdpReturn
    \/ \E p \in HTTP : WebHandler(p)
    \/ \E p \in HTTP : WebHandlerReturn(p)
    \/ \E p \in HTTP, m \in {"GET", "POST"} : PowerOnHandler(p, m)
    \/ \E p \in HTTP : PowerOnHandlerReturn(p)
    \/ EnvPowerOff
    \/ EnvPowerOn

Spec == Init /\ [][Next]_vars

(***************************************************************************)
(* SpecDeadline: the UDP loop and one HTTP worker, with the deadline of    *)
(* each call's context free to pass at any point between the creation of   *)
(* ctx and the return of the call. Connect, GetChassisStatus and           *)
(* ChassisControl are taken to fail once the deadline of their ctx passed. *)
(***************************************************************************)
DeadlineProcs == {"udp", "h1"}
DeadlineHTTP == {"h1"}

\* the 10 seconds of ctx run out while the call is at pc[p]
Expire(p) ==
    /\ pc[p] \in {"connect", "status", "powerup", "close"}
    /\ expired[p] = "no"
    /\ expired' = [expired EXCEPT ![p] = pc[p]]
    /\ UNCHANGED <<pc, call, sess, resp, power, offSeen, buffer, n, targetMAC>>
    /\ UNCHANGED pureVars

NextDeadline ==
    \/ \E p \in DeadlineProcs : Expire(p)
    \/ \E p \in DeadlineProcs : SPO_Connect(p)
    \/ \E p \in DeadlineProcs : SPO_GetChassisStatus(p)
    \/ \E p \in DeadlineProcs : SPO_ChassisControl(p)
    \/ \E p \in DeadlineProcs : SPO_Close(p)
    \/ \E p \in DeadlineHTTP : GPS_Connect(p)
    \/ \E p \in DeadlineHTTP : GPS_GetChassisStatus(p)
    \/ \E p \in DeadlineHTTP : GPS_Close(p)
    \/ UdpReceive
    \/ UdpReadError
    \/ UdpReturn
    \/ \E p \in DeadlineHTTP : WebHandler(p)
    \/ \E p \in DeadlineHTTP : WebHandlerReturn(p)
    \/ \E p \in DeadlineHTTP, m \in {"GET", "POST"} : PowerOnHandler(p, m)
    \/ \E p \in DeadlineHTTP : PowerOnHandlerReturn(p)
    \/ EnvPowerOff
    \/ EnvPowerOn

SpecDeadline == Init /\ [][NextDeadline]_vars

(***************************************************************************)
(* SpecLive: SpecDeadline with the scheduling the program relies on: an    *)
(* operation on the controller that a call has started comes back (with a  *)
(* result, or with an error once the deadline passed), and a goroutine     *)
(* whose callee has returned goes on. Nothing is assumed about datagrams   *)
(* or requests arriving, nor about the chassis being switched by others.   *)
(***************************************************************************)
\* the next operation of the call process p is in
CallStep(p) ==
    \/ SPO_Connect(p)
    \/ SPO_GetChassisStatus(p)
    \/ SPO_ChassisControl(p)
    \/ SPO_Close(p)
    \/ GPS_Connect(p)
    \/ GPS_GetChassisStatus(p)
    \/ GPS_Close(p)

\* the caller of a call that has returned goes on
CallerStep(p) ==
    \/ p = "udp" /\ UdpReturn
    \/ WebHandlerReturn(p)
    \/ PowerOnHandlerReturn(p)

Fairness ==
    \A p \in DeadlineProcs : WF_vars(CallStep(p)) /\ WF_vars(CallerStep(p))

SpecLive == Init /\ [][NextDeadline]_vars /\ Fairness

(***************************************************************************)
(* Claims about sendIPMIPowerOn and getPowerStatus (checked under Spec)    *)
(***************************************************************************)
SPO(p) == call[p].fn = "sendIPMIPowerOn"
SPOReturned(p) == SPO(p) /\ pc[p] = "returned"

\* C1: a sendIPMIPowerOn call whose power-state query succeeded and reported ON
\* issues no power-on command and returns nil at the "already powered ON"
\* return (NoActionAlreadyOn).
C1_AlreadyOnIsNoOp ==
    \A p \in Procs :
        (SPO(p) /\ call[p].observed = "ON") =>
            /\ call[p].cmds = 0
            /\ call[p].cmdres = "none"
            /\ pc[p] \in {"close", "returned"}
            /\ ~IsErr(call[p].ret)
            /\ Outcome(call[p].ret) = "NoActionAlreadyOn"

C1_Witness ==
    \E p \in Procs : SPOReturned(p) /\ call[p].observed = "ON"

\* C2: a sendIPMIPowerOn call whose query succeeded and reported OFF has, when
\* it returns, issued exactly one power-on command; it returns PowerOnIssued if
\* the controller accepted the command and CommandFailed if it rejected it.
C2_OffIssuesOneCommand ==
    \A p \in Procs :
        (SPOReturned(p) /\ call[p].observed = "OFF") =>
            /\ call[p].cmds = 1
            /\ call[p].cmdres \in {"accepted", "rejected"}
            /\ call[p].cmdres = "accepted" => Outcome(call[p].ret) = "PowerOnIssued"
            /\ call[p].cmdres = "rejected" => Outcome(call[p].ret) = "CommandFailed"

C2_Witness ==
    \E p, q \in Procs :
        /\ SPOReturned(p) /\ call[p].observed = "OFF" /\ call[p].cmdres = "accepted"
        /\ SPOReturned(q) /\ call[q].observed = "OFF" /\ call[q].cmdres = "rejected"

\* C3: when client.Connect fails, sendIPMIPowerOn returns at once with
\* QueryFailed, having made exactly one connection attempt, no power-state
\* query and no power-on command.
C3_ConnectFailure ==
    \A p \in Procs :
        (SPO(p) /\ call[p].connects >= 1 /\ call[p].opened = 0) =>
            /\ pc[p] = "returned"
            /\ Outcome(call[p].ret) = "QueryFailed"
            /\ call[p].connects = 1
            /\ call[p].queries = 0
            /\ call[p].cmds = 0
            /\ ~sess[p]

C3_Witness ==
    \E p \in Procs :
        SPOReturned(p) /\ call[p].connects = 1 /\ call[p].opened = 0

\* C4 as stated: every sendIPMIPowerOn call that has returned opened exactly one
\* controller session, issued at most one power-on command, and issued it only
\* after a successful query that reported OFF.
C4_ExactlyOneSession ==
    \A p \in Procs :
        SPOReturned(p) =>
            /\ call[p].opened = 1
            /\ call[p].cmds <= 1
            /\ call[p].cmds >= 1 => (call[p].queries = 1 /\ call[p].observed = "OFF")

\* C4 as amended: every sendIPMIPowerOn call makes at most one connection
\* attempt and opens at most one session: exactly one once Connect has
\* succeeded, none when NewClient or Connect fails; it issues at most one
\* power-on command, and only after a successful query of the same call that
\* reported OFF.
C4_AtMostOneSession ==
    \A p \in Procs :
        SPO(p) =>
            /\ call[p].connects <= 1
            /\ call[p].opened <= 1
            /\ call[p].queries <= 1
            /\ call[p].cmds <= 1
            /\ call[p].ret \in {"ErrNewClient", "ErrConnect"} <=>
                   (pc[p] = "returned" /\ call[p].opened = 0)
            /\ pc[p] \in {"status", "powerup", "close"} => call[p].opened = 1
            /\ (pc[p] = "powerup" \/ call[p].cmds >= 1) =>
                   (call[p].queries = 1 /\ call[p].observed = "OFF")

C4_Witness ==
    \E p \in Procs :
        SPOReturned(p) /\ call[p].opened = 1 /\ call[p].cmds = 1

\* C5: no session opened by a call is still open when sendIPMIPowerOn or
\* getPowerStatus has returned, whatever the return (already on, power-on
\* issued, query failure, command failure).
C5_SessionReleased ==
    \A p \in Procs :
        pc[p] \in {"returned", "idle", "read"} => ~sess[p]

C5_Witness ==
    \E p, q \in Procs :
        /\ SPOReturned(p) /\ call[p].opened = 1 /\ call[p].ret = "ErrStatus" /\ ~sess[p]
        /\ pc[q] = "returned" /\ call[q].fn = "getPowerStatus"
        /\ call[q].opened = 1 /\ ~sess[q]

\* C6: two sendIPMIPowerOn calls can both read OFF in one OFF period and both
\* issue a power-on command (the witness); whenever two calls did so and one of
\* the two commands landed, at least one of the calls returns PowerOnIssued.
C6_OneOfTwoSucceeds ==
    \A p, q \in Procs :
        ( /\ p # q
          /\ SPOReturned(p) /\ SPOReturned(q)
          /\ {p, q} \subseteq offSeen
          /\ call[p].cmds = 1 /\ call[q].cmds = 1
          /\ (call[p].cmdres = "accepted" \/ call[q].cmdres = "accepted") )
        => ( \/ Outcome(call[p].ret) = "PowerOnIssued"
             \/ Outcome(call[q].ret) = "PowerOnIssued" )

C6_Witness ==
    \E p, q \in Procs :
        /\ p # q
        /\ SPOReturned(p) /\ SPOReturned(q)
        /\ {p, q} \subseteq offSeen
        /\ call[p].cmds = 1 /\ call[q].cmds = 1
        /\ call[p].cmdres = "accepted"

(***************************************************************************)
(* Claims about isValidWOLPacket (checked under SpecWOL)                   *)
(***************************************************************************)
Validated == wolResult # <<>>

\* C7: isValidWOLPacket returns false for every byte sequence whose length is
\* not 102, whatever the target address.
C7_WrongLengthRejected ==
    (Validated /\ Len(wolData) # WOLLen) => wolResult = <<FALSE>>

C7_Witness ==
    /\ Validated
    /\ Len(wolData) > WOLLen
    /\ SubSeq(wolData, 1, WOLLen) = MagicPacket(wolMAC)

\* C8: the packet of 6 bytes 0xFF and 16 repetitions of m is accepted for
\* target m and rejected for every other 6-byte target.
C8_MagicPacketMatchesOnlyItsTarget ==
    (Validated /\ wolData = MagicPacket(wolSrc)) =>
        wolResult = <<wolSrc = wolMAC>>

C8_Witness ==
    /\ Validated
    /\ wolData = MagicPacket(wolSrc)
    /\ wolSrc # wolMAC
    /\ \A j \in 1..(MACLen - 1) : wolSrc[j] = wolMAC[j]

\* C9: a valid packet for target m with exactly one of its 102 bytes changed is
\* rejected for target m.
C9_OneByteChangedRejected ==
    (Validated /\ Len(wolData) = WOLLen
        /\ DiffCount(wolData, MagicPacket(wolMAC)) = 1) =>
        wolResult = <<FALSE>>

C9_Witness ==
    /\ Validated
    /\ Len(wolData) = WOLLen
    /\ DiffCount(wolData, MagicPacket(wolMAC)) = 1
    /\ wolData[WOLLen] # wolMAC[MACLen]

(***************************************************************************)
(* Claims about the UDP receive loop (checked under Spec)                  *)
(***************************************************************************)
\* C10: an iteration of the receive loop starts sendIPMIPowerOn if and only if
\* the datagram it read has at least 102 bytes and its first 102 bytes are the
\* magic packet of the target address; otherwise nothing but n and buffer
\* changes: no call, no session, no command.
C10_TriggerIffValid ==
    [][ ( /\ pc["udp"] = "read"
          /\ <<n, buffer, pc["udp"]>>' # <<n, buffer, pc["udp"]>> )
        => ( /\ (call'["udp"].fn = "sendIPMIPowerOn") <=>
                    ( /\ n' >= WOLLen
                      /\ Slice(buffer', WOLLen) = MagicPacket(targetMAC) )
             /\ (call'["udp"].fn # "sendIPMIPowerOn") =>
                    UNCHANGED <<pc, call, sess, power>> )
      ]_vars

C10_Witness ==
    /\ SPO("udp")
    /\ n > WOLLen
    /\ Len(buffer) > WOLLen /\ buffer[WOLLen + 1] # 0

(***************************************************************************)
(* Claims about the trigger sources (checked under Spec)                   *)
(***************************************************************************)
InCall(p) == pc[p] \in {"connect", "status", "powerup", "close", "returned"}

\* C14: a POST /poweron request calls sendIPMIPowerOn once: the call starts
\* with the request, the response is written when that call has returned, and
\* the handler is then done, with no second call. The response is the redirect
\* (303 to "/") when the call returned nil (power-on sent, or already on) and
\* 500 when it returned an error.
C14_PowerOnOnceThenRedirectOr500 ==
    [][\A p \in HTTP :
        /\ (~SPO(p) /\ call'[p].fn = "sendIPMIPowerOn") =>
              pc[p] = "idle" /\ resp'[p] = NoResp
        /\ (SPO(p) /\ resp'[p] # resp[p]) =>
              /\ pc[p] = "returned"
              /\ resp'[p].code = IF Outcome(call[p].ret) \in
                                      {"PowerOnIssued", "NoActionAlreadyOn"}
                                 THEN 303 ELSE 500
              /\ Outcome(call[p].ret) \in {"QueryFailed", "CommandFailed"} =>
                     resp'[p].code = 500
              /\ pc'[p] = "idle"
              /\ call'[p] = NoCall
        /\ (SPO(p) /\ pc[p] = "returned") => pc'[p] \in {"returned", "idle"}]_vars

C14_Witness ==
    /\ resp["h1"].code = 500
    /\ resp["h2"].code = 303
    /\ pc["h1"] = "idle"
    /\ pc["h2"] = "idle"

\* C15: the status page shows "Unknown" exactly when the query of that request
\* failed (no client, no session, or the status query failed), and otherwise
\* ON or OFF as the controller reported it to that request's query.
C15_UnknownIffQueryFailed ==
    [][\A p \in HTTP :
        (In(p, "getPowerStatus", "returned") /\ pc'[p] # "returned") =>
            /\ resp'[p].code = 200
            /\ (resp'[p].status = "Unknown") <=> (call[p].observed \notin {"ON", "OFF"})
            /\ call[p].observed \in {"ON", "OFF"} => resp'[p].status = call[p].observed
            /\ (call[p].observed \notin {"ON", "OFF"}) <=> IsErr(call[p].ret)]_vars

C15_Witness ==
    /\ resp["h1"] = [code |-> 200, status |-> "Unknown"]
    /\ resp["h2"] = [code |-> 200, status |-> "OFF"]
    /\ power = "ON"

\* C16: a controller call that returned an error never stops its caller: the
\* UDP loop goes on to read the next datagram and the HTTP worker goes on to
\* take the next request.
C16_ErrorsDoNotStopSources ==
    [][\A p \in Procs :
        (pc[p] = "returned" /\ IsErr(call[p].ret) /\ pc'[p] # "returned") =>
            /\ pc'[p] = IF p = "udp" THEN "read" ELSE "idle"
            /\ call'[p] = NoCall]_vars

C16_Witness ==
    /\ resp["h1"].code = 500
    /\ pc["h1"] = "idle"
    /\ pc["h2"] = "connect"
    /\ pc["udp"] = "returned"
    /\ IsErr(call["udp"].ret)

\* C17: the UDP loop handles one datagram at a time: while the call made for a
\* datagram has not returned to the loop, no datagram is read (n and buffer
\* stay as they are) and no second UDP-triggered call starts.
C17_OneDatagramAtATime ==
    [][InCall("udp") =>
        /\ UNCHANGED <<n, buffer>>
        /\ pc'["udp"] # "connect" \/ pc["udp"] = "connect"
        /\ call'["udp"].fn = "none" => pc["udp"] = "returned" /\ pc'["udp"] = "read"]_vars

C17_Witness ==
    /\ pc["udp"] = "close"
    /\ n = WOLLen + Len(Suffix)
    /\ call["udp"].ret = "PowerOnSent"

\* C18: power state is not cached: a call's query reports the controller's
\* power state at the moment of that query, each call makes its own query, and
\* a call sends the command or skips it on what its own query reported.
C18_FreshQueryPerCall ==
    [][\A p \in Procs :
        /\ (call'[p].fn # "none" /\ call'[p].queries # call[p].queries) =>
              /\ call[p].queries = 0
              /\ call'[p].observed \in {power, "err"}
        /\ call'[p].cmds > call[p].cmds =>
              call[p].queries = 1 /\ call[p].observed = "OFF"
        /\ (call'[p].ret \in {"AlreadyOn", "Status"} /\ call[p].ret = "none") =>
              call'[p].queries = 1 /\ call'[p].observed = power
        /\ (call'[p].ret = "AlreadyOn" /\ call[p].ret = "none") => power = "ON"]_vars

C18_Witness ==
    /\ resp["h1"] = [code |-> 200, status |-> "ON"]
    /\ call["udp"].observed = "OFF"
    /\ call["h2"].observed = "ON"
    /\ call["h2"].ret = "AlreadyOn"

(***************************************************************************)
(* Claims about the two web handlers (checked under Spec)                  *)
(***************************************************************************)
GPS(p) == call[p].fn = "getPowerStatus"

\* C22: a status-page request is read-only towards the controller: its
\* getPowerStatus call sends no power-on command whatever the query reports,
\* no step of it changes the power state, and when it has returned a status
\* it has opened one session, made one query and made its Close call.
C22_StatusPageIsReadOnly ==
    [][\A p \in HTTP :
        /\ GPS(p) =>
              /\ call[p].cmds = 0
              /\ call[p].cmdres = "none"
              /\ pc[p] # "powerup"
        /\ (GPS(p) /\ (call'[p] # call[p] \/ pc'[p] # pc[p] \/ sess'[p] # sess[p])) =>
              power' = power
        /\ (GPS(p) /\ pc[p] = "returned" /\ call[p].ret = "Status") =>
              /\ call[p].opened = 1
              /\ call[p].queries = 1
              /\ ~sess[p]]_vars

C22_Witness ==
    /\ In("h2", "getPowerStatus", "returned")
    /\ call["h2"].observed = "OFF"
    /\ call["h2"].ret = "Status"
    /\ power = "OFF"
    /\ resp["h1"] = [code |-> 200, status |-> "OFF"]

\* the methods of a request other than POST
NonPost == {"GET", "HEAD", "PUT", "DELETE"}

\* C23: a request to /poweron whose method is not POST is answered with 405
\* and starts no call: the worker stays idle, no session is opened, no command
\* is sent and the power state is as before; and a 405 is written by no other
\* step.
C23_NonPostIs405AndNoCall ==
    [][\A p \in HTTP :
        /\ \A m \in NonPost :
              PowerOnHandler(p, m) =>
                  /\ resp'[p] = [code |-> 405, status |-> "none"]
                  /\ UNCHANGED <<pc, call, sess, power>>
        /\ (resp'[p].code = 405 /\ resp'[p] # resp[p]) =>
              /\ pc[p] = "idle"
              /\ UNCHANGED <<pc, call, sess, power>>]_vars

C23_Witness ==
    /\ resp["h1"].code = 405
    /\ pc["h1"] = "idle"
    /\ call["h1"] = NoCall
    /\ ~sess["h1"]
    /\ power = "OFF"
    /\ resp["h2"].code = 303

(***************************************************************************)
(* Claims about the deadline of a call (checked under SpecDeadline)        *)
(***************************************************************************)
\* C19 as claimed: a sendIPMIPowerOn call whose deadline passed before it
\* returned ends with QueryFailed or CommandFailed, never with success.
\* (It does not hold: the deadline can pass after the last operation that
\* decides the outcome, while the deferred Close is still to run.)
C19_ExpiredNeverSucceeds ==
    \A p \in Procs :
        (SPOReturned(p) /\ expired[p] # "no") =>
            Outcome(call[p].ret) \in {"QueryFailed", "CommandFailed"}

\* C19 amended: a call has one deadline for all its steps, so once it has
\* passed every later step fails: a deadline that passes before the session is
\* up or before the query has answered ends the call with QueryFailed, one that
\* passes after an OFF answer and before the command has been accepted ends it
\* with CommandFailed; no command is sent successfully after the deadline, the
\* call has made its Close call on any session it opened, and no step of the
\* call is tried twice.
C19_DeadlineFailsRemainingSteps ==
    \A p \in Procs :
        /\ (SPOReturned(p) /\ expired[p] \in {"connect", "status"}) =>
              /\ Outcome(call[p].ret) = "QueryFailed"
              /\ call[p].cmds = 0
        /\ (SPOReturned(p) /\ expired[p] = "powerup") =>
              /\ Outcome(call[p].ret) = "CommandFailed"
              /\ call[p].cmdres = "rejected"
        /\ (In(p, "getPowerStatus", "returned") /\ expired[p] \in {"connect", "status"}) =>
              IsErr(call[p].ret)
        /\ (pc[p] = "returned" /\ expired[p] # "no") =>
              /\ ~sess[p]
              /\ call[p].connects <= 1
              /\ call[p].queries <= 1
              /\ call[p].cmds <= 1

C19_Witness ==
    /\ SPOReturned("udp")
    /\ expired["udp"] = "powerup"
    /\ call["udp"].ret = "ErrPowerUp"
    /\ pc["h1"] = "returned"
    /\ expired["h1"] = "status"
    /\ call["h1"].fn = "getPowerStatus"

(***************************************************************************)
(* Claims about termination (checked under SpecLive)                       *)
(***************************************************************************)
Outcomes == {"NoActionAlreadyOn", "PowerOnIssued", "QueryFailed", "CommandFailed"}

\* C21: every sendIPMIPowerOn call that has started returns, with one of the
\* four outcomes; and whenever the UDP loop is inside the call it made for a
\* valid datagram, it gets back to reading the next datagram.
C21_EveryCallReturns ==
    /\ \A p \in DeadlineProcs :
          (SPO(p) /\ pc[p] # "returned") ~>
              (SPOReturned(p) /\ Outcome(call[p].ret) \in Outcomes)
    /\ (pc["udp"] # "read") ~> (pc["udp"] = "read" /\ call["udp"] = NoCall)

C21_Witness ==
    /\ SPOReturned("udp")
    /\ Outcome(call["udp"].ret) = "PowerOnIssued"
    /\ expired["udp"] = "close"
    /\ n >= WOLLen

(***************************************************************************)
(* Claims about parseMAC and the startup of main (checked under SpecMAC)   *)
(***************************************************************************)
\* C11: the configured target MAC address is always exactly 6 bytes: whenever
\* parseMAC succeeds, and whenever main goes on to start its listeners, the
\* address it returned has 6 octets. (Stated as claimed; it does not hold.)
C11_TargetAlwaysSixBytes ==
    /\ macOut.ok => Len(macOut.addr) = MACLen
    /\ macOut.at \in {"parsed", "listening"} => Len(macOut.addr) = MACLen

\* C12: parseMAC returns the same 6 octets for the hyphen-separated and for the
\* colon-separated text of an address, and fails for the 3-octet text
\* "00:11:22".
C12_HyphenAndColonAgree ==
    macOut.at # "start" =>
        /\ \A m \in MACs \cup {UpperMAC} :
              macText \in {Text(m, "-", LowerHex), Text(m, ":", LowerHex)} =>
                  macOut.ok /\ macOut.addr = m
        /\ macText = Text(ShortMAC, ":", LowerHex) => ~macOut.ok /\ macOut.at = "fatal"

C12_Witness ==
    /\ macOut.at = "listening"
    /\ macText = Text(DefaultMAC, "-", LowerHex)
    /\ macOut.addr = DefaultMAC

(***************************************************************************)
(* Claims about the configuration (checked under SpecCfg)                  *)
(***************************************************************************)
\* the environment variable and the built-in default of each value
EnvOf == [host |-> "IPMI_HOST", username |-> "IPMI_USERNAME",
          password |-> "IPMI_PASSWORD", mac |-> "WOL_MAC"]
BuiltIn ==
    [host |-> "192.168.0.1", username |-> "admin", password |-> "admin",
     port |-> 623, wolPort |-> 9, mac |-> "00:11:22:33:44:55", webPort |-> 80]

\* flag when given, else environment variable when set, else built-in default
Precedence(name) ==
    IF name \in cfgFlags.given THEN FlagGiven[name]
    ELSE IF name \in DOMAIN EnvOf /\ cfgEnv[EnvOf[name]] # "" THEN cfgEnv[EnvOf[name]]
    ELSE BuiltIn[name]

\* C13: every configuration value main ends up with (host, username, password,
\* controller port, target MAC, WoL port, web port) is the flag when the flag
\* is given, otherwise the environment variable when it is set, otherwise the
\* built-in default. (Stated as claimed; it does not hold.)
C13_FlagsOverrideEnvironment ==
    cfgMain.done => \A name \in FlagNames : cfgMain[name] = Precedence(name)

\* C20: the web handlers call the controller with the same host, username,
\* password and port as the UDP listener, whatever the configuration.
\* (Stated as claimed; it does not hold.)
C20_HandlersUseMainConfig ==
    cfgWeb.by # "none" =>
        \A k \in {"host", "username", "password", "port"} : cfgWeb[k] = cfgMain[k]

====
